---------------------------- MODULE Spec2Model ----------------------------
(***************************************************************************)
(* The chat message reconciliation core of the course chat widget.         *)
(*                                                                         *)
(* The Chat component (src/unnamed/part_000) merges three sources into one *)
(* list, allMessages: the paginated history window (loadedMessages), the   *)
(* live push buffer (wsMessages) and the optimistic outbox                 *)
(* (pendingMessages), minus the locally deleted ids (deletedMessages).     *)
(*                                                                         *)
(* Time is in milliseconds, as Date.getTime() returns it.  A message id is *)
(* a natural number: the server issues 1, 2, ...; a client tempId (uuidv4) *)
(* is TempBase + k for the k-th submission, so it never equals a server id *)
(* nor another tempId.  A tempId of 0 stands for "no tempId" (undefined).  *)
(***************************************************************************)
EXTENDS Integers, Sequences, FiniteSets, TLC

(* ----------------------------- bounds ---------------------------------- *)
MaxSends == 2        \* submissions of the current user in one run
MaxSendsModify == 1  \* the same, in the runs with edit and delete
MaxOther == 1        \* messages another participant sends in one run
MaxLive == 2         \* length of the live buffer (stale re-deliveries included)
TickMs == 5000       \* time between two submissions, in ms
PageSize == 1        \* page size of the history fetch in the model
MaxMerged == 2       \* history and live messages in the runs on the reconciler alone
MaxEdits == 1        \* remote edit calls in one run
MaxDeletes == 1      \* remote delete calls in one run
MaxConnects == 2     \* connect() calls of the owner in one run

TempBase == 100
MaxDisconnects == 2
MaxSubscribes == 2
MaxStompReconnects == 1
MaxFrames == 3
MaxStrays == 1

CourseA == "A"
CourseB == "B"
Me == "U1"
Other == "U2"
Spaces == {" "}
Drafts == {<<" ">>, <<"a">>, <<" ", "a">>}
EditDrafts == {<<" ">>, <<"b">>, <<"b", " ">>}

VARIABLES
  loadedMessages,    \* history window (useChatInfiniteScroll.messages)
  hasNextPage,       \* history: an older page may exist
  nextPage,          \* history: index of the next page to fetch
  wsMessages,        \* live buffer (useChatWebSocket.messages)
  pendingMessages,   \* outbox
  deletedMessages,   \* tombstones
  deletingMessages,  \* ids with a remote delete in flight
  updatingMessages,  \* ids with a remote edit in flight
  editingMessageId,  \* id being edited in the UI, 0 for null
  allMessages,       \* the memoized reconciled list
  serverMessages,    \* the server's stored messages, oldest first
  serverSeq,         \* last id the server issued
  sendCalls,         \* send calls in flight or answered, by tempId
  editCalls,         \* edit calls in flight: [id, content]
  broadcasts,        \* pushes in flight to this client, in order
  sends,             \* submissions so far
  others,            \* messages of the other participant so far
  edits,             \* remote edit calls so far
  deletes,           \* remote delete calls so far
  courseId,          \* the conversation the chat shows (the courseId prop)
  client,            \* WebSocketService.client: "null", or the STOMP client's phase
  config,            \* WebSocketService.config is set
  isConnected,       \* WebSocketService.isConnected
  subscription,      \* WebSocketService.subscription: its topic, and whether the broker serves it
  reconnectAttempts, \* WebSocketService.reconnectAttempts
  onDisconnect,      \* the client's onDisconnect handler: "reconnect" or "teardown"
  timers,            \* reconnect timers that are scheduled and have not fired
  staleTimers,       \* those of them scheduled before the last disconnect() call
  startedBy,         \* who started the client's connect: "owner" or "timer"
  failedReconnects,  \* failed reconnects since the last successful connect
  connects,          \* connect() calls of the owner so far
  topic,             \* config.courseId
  orphans,           \* served subscriptions the service does not refer to, per topic
  waiters,           \* subscribeToMessages calls waiting for the connection, per topic
  received,          \* the frames the subscription callbacks were called with
  handled,           \* the messages handed to config.onMessage
  frames,            \* frames broadcast so far
  connectPromise,    \* the promise of the last connect() call
  teardownPromise,   \* the disconnect() promise the installed teardown handler resolves
  orphanPromises,    \* unresolved disconnect() promises whose handler was replaced
  reconnecting,      \* where the reconnect() call stands
  reconnectNotice,   \* config.onReconnect was called and the chat has not handled it
  strays,            \* replaced clients, which were never deactivated (counted up to MaxStrays)
  strayConnecting,   \* those of them that are still connecting, by state of their promise
  disconnects,       \* disconnect() calls of the owner so far
  subscribes,        \* subscribeToCourse() calls so far
  stompReconnects    \* reconnects the STOMP client started by itself so far

vars == <<loadedMessages, hasNextPage, nextPage, wsMessages, pendingMessages,
          deletedMessages, deletingMessages, updatingMessages,
          editingMessageId, allMessages, serverMessages,
          serverSeq, sendCalls, editCalls, broadcasts, sends, others, edits,
          deletes, courseId, client, config, isConnected, subscription,
          reconnectAttempts, onDisconnect, timers, staleTimers, startedBy,
          failedReconnects, connects, topic, orphans, waiters, received,
          handled, frames, connectPromise, teardownPromise, orphanPromises,
          reconnecting, reconnectNotice, strays, strayConnecting, disconnects,
          subscribes, stompReconnects>>

(* ----------------------------- helpers --------------------------------- *)
Range(s) == {s[i] : i \in 1..Len(s)}

Ids(s) == {s[i].id : i \in 1..Len(s)}

RECURSIVE FilterSeq(_, _)
\* Array.prototype.filter with the predicate given as the set of kept values
FilterSeq(s, keep) ==
  IF s = <<>> THEN <<>>
  ELSE IF Head(s) \in keep THEN <<Head(s)>> \o FilterSeq(Tail(s), keep)
       ELSE FilterSeq(Tail(s), keep)

Abs(x) == IF x < 0 THEN -x ELSE x

\* A chat message of conversation CourseA: the fields of ChatMessage the
\* reconciliation reads, and the conversation it belongs to.
Msg(id, tempId, content, type, senderId, createdAt, status) ==
  [id |-> id, tempId |-> tempId, courseId |-> CourseA, content |-> content,
   type |-> type, senderId |-> senderId, createdAt |-> createdAt,
   status |-> status]

\* the same message in another conversation
InCourse(m, course) == [m EXCEPT !.courseId = course]

(* --------------------------- the reconciler ---------------------------- *)
RECURSIVE MergeLiveUnchecked(_, _, _)
MergeLiveUnchecked(combined, ws, loadedIds) ==
  IF ws = <<>> THEN combined
  ELSE MergeLiveUnchecked(<<Head(ws)>> \o combined, Tail(ws), loadedIds)

RECURSIVE MergeLive(_, _, _)
\* wsMessages.forEach: a live message with an id that is not among the ids
\* of the history window is put in front of the combined list.
MergeLive(combined, ws, loadedIds) ==
  IF ws = <<>> THEN combined
  ELSE LET wsMsg == Head(ws) IN
       IF wsMsg.id # 0 /\ wsMsg.id \notin loadedIds
       THEN MergeLive(<<wsMsg>> \o combined, Tail(ws), loadedIds)
       ELSE MergeLive(combined, Tail(ws), loadedIds)

combinedMessages(loaded, ws) ==
  IF Len(ws) > 0 THEN MergeLive(loaded, ws, Ids(loaded)) ELSE loaded

SkewMs == 10000

\* timeDiff < 10000
FuzzyWithin(msgTime, pendingTime) == Abs(msgTime - pendingTime) < SkewMs

IsRealMessageAnySender(msg, pending) ==
  \/ msg.id = pending.id
  \/ /\ msg.content = pending.content
     /\ msg.type = pending.type
     /\ FuzzyWithin(msg.createdAt, pending.createdAt)

\* the callback of combinedMessages.some
IsRealMessageOf(msg, pending) ==
  \/ msg.id = pending.id
  \/ /\ msg.content = pending.content
     /\ msg.senderId = pending.senderId
     /\ msg.type = pending.type
     /\ FuzzyWithin(msg.createdAt, pending.createdAt)

hasRealMessage(combined, pending) ==
  \E i \in 1..Len(combined) : IsRealMessageOf(combined[i], pending)

KeepEveryPending(combined, pending) == TRUE

KeepPendingAll(combined, pending) == ~hasRealMessage(combined, pending)

\* the callback of pendingMessages.filter
KeepPending(combined, pending) ==
  IF pending.status = "SUCCESS" THEN ~hasRealMessage(combined, pending)
  ELSE TRUE

pendingWithoutDuplicates(combined, pending) ==
  FilterSeq(pending, {p \in Range(pending) : KeepPending(combined, p)})

NoTombstoneFilter(s, deleted) == s

\* .filter((msg) => !deletedMessages.has(msg.id))
allCombined(s, deleted) ==
  FilterSeq(s, {m \in Range(s) : m.id \notin deleted})

RECURSIVE InsertDesc(_, _)
\* puts m behind every entry that is not older than it (a stable insertion)
InsertDesc(sorted, m) ==
  IF sorted = <<>> THEN <<m>>
  ELSE IF Head(sorted).createdAt - m.createdAt < 0
       THEN <<m>> \o sorted
       ELSE <<Head(sorted)>> \o InsertDesc(Tail(sorted), m)

RECURSIVE SortFrom(_, _)
SortFrom(sorted, rest) ==
  IF rest = <<>> THEN sorted
  ELSE SortFrom(InsertDesc(sorted, Head(rest)), Tail(rest))

Unsorted(s) == s

\* Array.prototype.sort((a, b) => b.createdAt - a.createdAt): stable, newest first
SortByCreatedAtDesc(s) == SortFrom(<<>>, s)

\* the useMemo body
Reconcile(loaded, ws, pending, deleted) ==
  LET combined == combinedMessages(loaded, ws)
  IN SortByCreatedAtDesc(
       allCombined(combined \o pendingWithoutDuplicates(combined, pending),
                   deleted))


(* ------------------- history window and live buffer -------------------- *)
RECURSIVE PatchSeq(_, _, _)
PatchSeq(s, id, f) ==
  IF s = <<>> THEN <<>>
  ELSE <<IF Head(s).id = id THEN f @@ Head(s) ELSE Head(s)>>
         \o PatchSeq(Tail(s), id, f)

\* useChatInfiniteScroll.addNewMessage: a new id goes to the front of the
\* window, a known id leaves the window as it is
addNewMessage(loaded, m) ==
  IF m.id \in Ids(loaded) THEN loaded ELSE <<m>> \o loaded

\* useChatInfiniteScroll.updateMessage(id, fields)
updateInfiniteScrollMessage(loaded, id, f) == PatchSeq(loaded, id, f)

\* useChatInfiniteScroll.removeMessage(id), useChatWebSocket.removeMessage(id)
removeMessage(s, id) == FilterSeq(s, {m \in Range(s) : m.id # id})

\* the server's messages newest first, as the history endpoint pages them
Newest(s) == [i \in 1..Len(s) |-> s[Len(s) + 1 - i]]

PageOf(server, p) ==
  LET all == Newest(server)
      lo == p * PageSize + 1
      hi == IF (p + 1) * PageSize < Len(all) THEN (p + 1) * PageSize
            ELSE Len(all)
  IN IF lo > hi THEN <<>> ELSE SubSeq(all, lo, hi)

\* useChatInfiniteScroll: a fetched page is appended, known ids skipped
appendPage(loaded, page) ==
  loaded \o FilterSeq(page, {m \in Range(page) : m.id \notin Ids(loaded)})

\* the effect on [wsMessages]: the latest live message is offered to the
\* history window
wsMessagesEffect(loaded, ws) ==
  IF Len(ws) > 0 /\ ws[Len(ws)].id # 0
  THEN addNewMessage(loaded, ws[Len(ws)])
  ELSE loaded

(* ------------------------------- text ---------------------------------- *)
RECURSIVE TrimLeft(_)
TrimLeft(s) ==
  IF s # <<>> /\ Head(s) \in Spaces THEN TrimLeft(Tail(s)) ELSE s

RECURSIVE TrimRight(_)
TrimRight(s) ==
  IF s # <<>> /\ s[Len(s)] \in Spaces
  THEN TrimRight(SubSeq(s, 1, Len(s) - 1)) ELSE s

\* String.prototype.trim
Trim(s) == TrimRight(TrimLeft(s))

(* --------------------------- eligibility ------------------------------- *)
isCurrentUser(message) == message.senderId = Me

canEditAnyAuthor(message) ==
  /\ message.type = "TEXT"
  /\ message.status # "PENDING"
  /\ message.status # "ERROR"
  /\ message.id \notin updatingMessages
  /\ message.id \notin deletingMessages

canEditMessage(message) ==
  /\ isCurrentUser(message)
  /\ message.type = "TEXT"
  /\ message.status # "PENDING"
  /\ message.status # "ERROR"
  /\ message.id \notin updatingMessages
  /\ message.id \notin deletingMessages

\* MessageActions offers delete to the author of a message that is neither
\* PENDING nor ERROR; ChatMessageItem takes no pointer events while the
\* message is being deleted
canDeleteMessage(message) ==
  /\ isCurrentUser(message)
  /\ message.status # "PENDING"
  /\ message.status # "ERROR"
  /\ message.id \notin deletingMessages

(* ------------------------------ state ---------------------------------- *)
\* what the server holds when the chat opens
InitialServerMessages ==
  << Msg(1, 0, <<"a">>, "TEXT", Me, 0, "NONE"),
     Msg(2, 0, <<"a">>, "FILE", Me, 0, "NONE") >>

\* the WebSocketService singleton as constructed
TransportInit ==
  /\ client = "null"
  /\ config = FALSE
  /\ isConnected = FALSE
  /\ subscription = [topic |-> "none", live |-> FALSE]
  /\ reconnectAttempts = 0
  /\ onDisconnect = "reconnect"
  /\ timers = 0
  /\ staleTimers = 0
  /\ startedBy = "owner"
  /\ failedReconnects = 0
  /\ connects = 0
  /\ topic = CourseA
  /\ orphans = [c \in {CourseA, CourseB} |-> 0]
  /\ waiters = [c \in {CourseA, CourseB} |-> 0]
  /\ received = <<>>
  /\ handled = <<>>
  /\ frames = 0
  /\ connectPromise = "none"
  /\ teardownPromise = "none"
  /\ orphanPromises = 0
  /\ reconnecting = "no"
  /\ reconnectNotice = FALSE
  /\ strays = 0
  /\ strayConnecting = [p \in {"pending", "settled"} |-> 0]
  /\ disconnects = 0
  /\ subscribes = 0
  /\ stompReconnects = 0

Init ==
  /\ loadedMessages = <<>>
  /\ hasNextPage = TRUE
  /\ nextPage = 0
  /\ wsMessages = <<>>
  /\ pendingMessages = <<>>
  /\ deletedMessages = {}
  /\ deletingMessages = {}
  /\ updatingMessages = {}
  /\ editingMessageId = 0
  /\ allMessages = <<>>
  /\ serverMessages = InitialServerMessages
  /\ serverSeq = Len(InitialServerMessages)
  /\ sendCalls = {}
  /\ editCalls = {}
  /\ broadcasts = <<>>
  /\ sends = 0
  /\ others = 0
  /\ edits = 0
  /\ deletes = 0
  /\ courseId = CourseA
  /\ TransportInit

\* the useMemo on [loadedMessages, wsMessages, pendingMessages, deletedMessages]
Render ==
  allMessages' = Reconcile(loadedMessages', wsMessages', pendingMessages',
                           deletedMessages')

UI == <<deletingMessages, updatingMessages, editingMessageId>>
History == <<loadedMessages, hasNextPage, nextPage>>
Server == <<serverMessages, serverSeq>>
Transport == <<client, config, isConnected, subscription, reconnectAttempts,
               onDisconnect, timers, staleTimers, startedBy, failedReconnects,
               connects, topic, orphans, waiters, received, handled, frames,
               connectPromise, teardownPromise, orphanPromises, reconnecting,
               reconnectNotice, strays, strayConnecting, disconnects,
               subscribes, stompReconnects>>

\* The clock, in ms: the user submits every TickMs, and what happens between
\* two submissions happens within the same millisecond.
now == sends * TickMs

(* ------------------------------ sending -------------------------------- *)
handleSendMessageNoBlankCheck(messageText) ==
  LET contentToSend == Trim(messageText)
      tempId == TempBase + sends + 1
      optimisticMessage ==
        InCourse(Msg(tempId, tempId, contentToSend, "TEXT", Me, now,
                     "PENDING"), courseId)
  IN /\ pendingMessages' = Append(pendingMessages, optimisticMessage)
     /\ sendCalls' = sendCalls \cup
          {[tempId |-> tempId, courseId |-> courseId,
            content |-> contentToSend, state |-> "sent", id |-> 0]}
     /\ sends' = sends + 1
     /\ UNCHANGED <<History, wsMessages, deletedMessages, UI, Server,
                    editCalls, broadcasts, others, edits, deletes, courseId,
                    Transport>>
     /\ Render

\* handleSendMessage up to the await: a blank draft returns at once; any
\* other draft puts one PENDING entry in the outbox and issues the send call
handleSendMessage(messageText) ==
  /\ IF Trim(messageText) = <<>>
     THEN UNCHANGED vars
     ELSE LET contentToSend == Trim(messageText)
              tempId == TempBase + sends + 1
              optimisticMessage ==
                InCourse(Msg(tempId, tempId, contentToSend, "TEXT", Me, now,
                             "PENDING"), courseId)
          IN /\ pendingMessages' = Append(pendingMessages, optimisticMessage)
             /\ sendCalls' = sendCalls \cup
                  {[tempId |-> tempId, courseId |-> courseId,
                    content |-> contentToSend, state |-> "sent", id |-> 0]}
             /\ sends' = sends + 1
             /\ UNCHANGED <<History, wsMessages, deletedMessages, UI, Server,
                            editCalls, broadcasts, others, edits, courseId, Transport, deletes>>
             /\ Render

\* the server stores the message under a fresh id, answers the call and
\* pushes the message to the topic of its conversation, which reaches this
\* client when it is the conversation the chat shows
ServerAcceptSend(call) ==
  /\ call \in sendCalls /\ call.state = "sent"
  /\ LET stored == InCourse(Msg(serverSeq + 1, call.tempId, call.content,
                                "TEXT", Me, now, "NONE"), call.courseId)
     IN /\ serverMessages' = Append(serverMessages, stored)
        /\ serverSeq' = serverSeq + 1
        /\ broadcasts' = IF call.courseId = courseId
                         THEN Append(broadcasts, stored) ELSE broadcasts
        /\ sendCalls' = (sendCalls \ {call}) \cup
             {[call EXCEPT !.state = "ok", !.id = serverSeq + 1]}
  /\ UNCHANGED <<History, wsMessages, pendingMessages, deletedMessages, UI,
                 allMessages, editCalls, sends, others, edits, courseId, Transport, deletes>>

markSentKeepsId(prev, tempId, id) ==
  [i \in 1..Len(prev) |->
     IF prev[i].tempId = tempId
     THEN [prev[i] EXCEPT !.status = "SUCCESS"]
     ELSE prev[i]]

markSentEvery(prev, tempId, id) ==
  [i \in 1..Len(prev) |->
     IF prev[i].status = "PENDING"
     THEN [prev[i] EXCEPT !.id = id, !.status = "SUCCESS"]
     ELSE prev[i]]

\* prev.map(...) of the try branch
markSent(prev, tempId, id) ==
  [i \in 1..Len(prev) |->
     IF prev[i].tempId = tempId
     THEN [prev[i] EXCEPT !.id = id, !.tempId = tempId, !.status = "SUCCESS"]
     ELSE prev[i]]

markFailedDrops(prev, tempId) ==
  FilterSeq(prev, {m \in Range(prev) : m.tempId # tempId})

\* prev.map(...) of the catch branch
markFailed(prev, tempId) ==
  [i \in 1..Len(prev) |->
     IF prev[i].tempId = tempId
     THEN [prev[i] EXCEPT !.status = "ERROR"]
     ELSE prev[i]]

\* handleSendMessage after the await, the call having succeeded
SendResolved(call) ==
  /\ call \in sendCalls /\ call.state = "ok"
  /\ pendingMessages' = markSent(pendingMessages, call.tempId, call.id)
  /\ sendCalls' = sendCalls \ {call}
  /\ UNCHANGED <<History, wsMessages, deletedMessages, UI, Server, editCalls,
                 broadcasts, sends, others, edits, courseId, Transport, deletes>>
  /\ Render

\* the send fails (nothing is stored, nothing is pushed); handleSendMessage
\* after the await, the call having failed
SendRejected(call) ==
  /\ call \in sendCalls /\ call.state = "sent"
  /\ pendingMessages' = markFailed(pendingMessages, call.tempId)
  /\ sendCalls' = sendCalls \ {call}
  /\ UNCHANGED <<History, wsMessages, deletedMessages, UI, Server, editCalls,
                 broadcasts, sends, others, edits, courseId, Transport, deletes>>
  /\ Render

\* another participant posts a message: the server stores and pushes it
OtherSend(content, type) ==
  /\ others < MaxOther
  /\ LET stored == InCourse(Msg(serverSeq + 1, 0, content, type, Other, now,
                                "NONE"), courseId)
     IN /\ serverMessages' = Append(serverMessages, stored)
        /\ serverSeq' = serverSeq + 1
        /\ broadcasts' = Append(broadcasts, stored)
  /\ others' = others + 1
  /\ UNCHANGED <<History, wsMessages, pendingMessages, deletedMessages, UI,
                 allMessages, sendCalls, editCalls, sends, edits, courseId, Transport, deletes>>

(* ------------------------- live push, history -------------------------- *)
\* useChatWebSocket's onMessage: the message joins the live buffer, and the
\* effect on wsMessages offers it to the history window
LivePush(m) ==
  /\ wsMessages' = Append(wsMessages, m)
  /\ loadedMessages' = wsMessagesEffect(loadedMessages, wsMessages')

\* the oldest push in flight arrives
DeliverPush ==
  /\ broadcasts # <<>>
  /\ LivePush(Head(broadcasts))
  /\ broadcasts' = Tail(broadcasts)
  /\ UNCHANGED <<hasNextPage, nextPage, pendingMessages, deletedMessages, UI,
                 Server, sendCalls, editCalls, sends, others, edits, courseId, Transport, deletes>>
  /\ Render

\* at-least-once delivery: the oldest push arrives and will arrive again
DuplicatePush ==
  /\ broadcasts # <<>>
  /\ Len(wsMessages) < MaxLive
  /\ LivePush(Head(broadcasts))
  /\ UNCHANGED <<hasNextPage, nextPage, pendingMessages, deletedMessages, UI,
                 Server, sendCalls, editCalls, broadcasts, sends, others, edits, courseId, Transport, deletes>>
  /\ Render

\* what the server holds of one conversation
MessagesOf(course) ==
  FilterSeq(serverMessages, {m \in Range(serverMessages) : m.courseId = course})

\* useChatInfiniteScroll.fetchNextPage and its response
fetchNextPage ==
  /\ hasNextPage
  /\ loadedMessages' = appendPage(loadedMessages,
                                  PageOf(MessagesOf(courseId), nextPage))
  /\ nextPage' = nextPage + 1
  /\ hasNextPage' = ((nextPage + 1) * PageSize < Len(MessagesOf(courseId)))
  /\ UNCHANGED <<wsMessages, pendingMessages, deletedMessages, UI, Server,
                 sendCalls, editCalls, broadcasts, sends, others, edits, courseId, Transport, deletes>>
  /\ Render

(* ------------------------------ delete --------------------------------- *)
handleDeleteMessageOptimistic(messageId) ==
  /\ \E i \in 1..Len(allMessages) :
       allMessages[i].id = messageId /\ canDeleteMessage(allMessages[i])
  /\ deletes < MaxDeletes
  /\ deletingMessages' = deletingMessages \cup {messageId}
  /\ deletes' = deletes + 1
  /\ loadedMessages' = FilterSeq(loadedMessages,
                                 {m \in Range(loadedMessages) : m.id # messageId})
  /\ UNCHANGED <<hasNextPage, nextPage, wsMessages, pendingMessages,
                 deletedMessages, updatingMessages, editingMessageId, Server,
                 sendCalls, editCalls, broadcasts, sends, others, edits, courseId, Transport>>
  /\ Render

\* handleDeleteMessage up to the await: only the in-progress marker is set
handleDeleteMessage(messageId) ==
  /\ \E i \in 1..Len(allMessages) :
       allMessages[i].id = messageId /\ canDeleteMessage(allMessages[i])
  /\ deletes < MaxDeletes
  /\ deletingMessages' = deletingMessages \cup {messageId}
  /\ deletes' = deletes + 1
  /\ UNCHANGED <<History, wsMessages, pendingMessages, deletedMessages,
                 updatingMessages, editingMessageId, allMessages, Server,
                 sendCalls, editCalls, broadcasts, sends, others, edits, courseId, Transport>>

deleteSucceededKeepsLive(messageId) ==
  /\ wsMessages' = wsMessages
  /\ loadedMessages' = FilterSeq(loadedMessages,
                                 {m \in Range(loadedMessages) : m.id # messageId})
  /\ deletedMessages' = deletedMessages \cup {messageId}

\* the try branch after the await: the message leaves history window and
\* live buffer (the effect on wsMessages runs on the new buffer) and its id
\* joins the tombstones
deleteSucceeded(messageId) ==
  /\ wsMessages' = removeMessage(wsMessages, messageId)
  /\ loadedMessages' =
       wsMessagesEffect(removeMessage(loadedMessages, messageId), wsMessages')
  /\ deletedMessages' = deletedMessages \cup {messageId}

\* the server deletes the message; handleDeleteMessage after the await, the
\* call having succeeded
DeleteResolved(messageId) ==
  /\ messageId \in deletingMessages
  /\ messageId \in Ids(serverMessages)
  /\ serverMessages' = removeMessage(serverMessages, messageId)
  /\ deleteSucceeded(messageId)
  /\ deletingMessages' = deletingMessages \ {messageId}
  /\ UNCHANGED <<hasNextPage, nextPage, pendingMessages, updatingMessages,
                 editingMessageId, serverSeq, sendCalls, editCalls,
                 broadcasts, sends, others, edits, courseId, Transport, deletes>>
  /\ Render

\* handleDeleteMessage after the await, the call having failed
DeleteRejected(messageId) ==
  /\ messageId \in deletingMessages
  /\ deletingMessages' = deletingMessages \ {messageId}
  /\ UNCHANGED <<History, wsMessages, pendingMessages, deletedMessages,
                 updatingMessages, editingMessageId, allMessages, Server,
                 sendCalls, editCalls, broadcasts, sends, others, edits, courseId, Transport, deletes>>

(* ------------------------------- edit ---------------------------------- *)
\* the edit button of MessageActions (shown when canEdit) calls startEditing
startEditing(message) ==
  /\ message \in Range(allMessages)
  /\ canEditMessage(message)
  /\ message.type = "TEXT"
  /\ edits < MaxEdits
  /\ editingMessageId' = message.id
  /\ UNCHANGED <<History, wsMessages, pendingMessages, deletedMessages,
                 deletingMessages, updatingMessages, allMessages, Server,
                 sendCalls, editCalls, broadcasts, sends, others, edits, courseId, Transport, deletes>>

\* handleEditMessage up to the await, for the message whose edit box is open
\* and shown; editingText is what the user typed into the box
handleEditMessage(editingText) ==
  /\ editingMessageId \in Ids(allMessages)
  /\ edits < MaxEdits
  /\ IF Trim(editingText) = <<>>
     THEN UNCHANGED vars
     ELSE /\ updatingMessages' = updatingMessages \cup {editingMessageId}
          /\ loadedMessages' =
               updateInfiniteScrollMessage(loadedMessages, editingMessageId,
                                           [content |-> Trim(editingText)])
          /\ editCalls' = editCalls \cup
               {[id |-> editingMessageId, content |-> Trim(editingText),
                 state |-> "sent"]}
          /\ edits' = edits + 1
          /\ UNCHANGED <<hasNextPage, nextPage, wsMessages, pendingMessages,
                         deletedMessages, deletingMessages, editingMessageId,
                         Server, sendCalls, broadcasts, sends, others, deletes,
                         courseId, Transport>>
          /\ Render

\* the server updates the message and answers with the updated message
ServerAcceptEdit(call) ==
  /\ call \in editCalls /\ call.state = "sent"
  /\ call.id \in Ids(serverMessages)
  /\ serverMessages' =
       PatchSeq(serverMessages, call.id, [content |-> call.content])
  /\ editCalls' = (editCalls \ {call}) \cup {[call EXCEPT !.state = "ok"]}
  /\ UNCHANGED <<History, wsMessages, pendingMessages, deletedMessages, UI,
                 allMessages, serverSeq, sendCalls, broadcasts, sends, others,
                 edits, courseId, Transport, deletes>>

\* result.data: the message with the content the call asked for
EditResult(call) ==
  [id |-> call.id, content |-> call.content, type |-> "TEXT",
   senderId |-> Me, status |-> "NONE"]

\* handleEditMessage after the await, the call having succeeded: the edit
\* box closes and the window entry is patched with the response
EditResolved(call) ==
  /\ call \in editCalls /\ call.state = "ok"
  /\ editCalls' = editCalls \ {call}
  /\ editingMessageId' = 0
  /\ loadedMessages' =
       updateInfiniteScrollMessage(loadedMessages, call.id, EditResult(call))
  /\ updatingMessages' = updatingMessages \ {call.id}
  /\ UNCHANGED <<hasNextPage, nextPage, wsMessages, pendingMessages,
                 deletedMessages, deletingMessages, Server, sendCalls,
                 broadcasts, sends, others, edits, courseId, Transport, deletes>>
  /\ Render

EditRejectedRollsBack(call) ==
  /\ call \in editCalls /\ call.state = "sent"
  /\ editCalls' = editCalls \ {call}
  /\ updatingMessages' = updatingMessages \ {call.id}
  /\ loadedMessages' =
       updateInfiniteScrollMessage(loadedMessages, call.id,
                                   [content |-> <<"a">>])
  /\ UNCHANGED <<hasNextPage, nextPage, wsMessages, pendingMessages,
                 deletedMessages, deletingMessages, editingMessageId, Server,
                 sendCalls, broadcasts, sends, others, edits, deletes,
                 courseId, Transport>>
  /\ Render

\* the edit fails; handleEditMessage after the await, the call having failed
EditRejected(call) ==
  /\ call \in editCalls /\ call.state = "sent"
  /\ editCalls' = editCalls \ {call}
  /\ updatingMessages' = updatingMessages \ {call.id}
  /\ UNCHANGED <<History, wsMessages, pendingMessages, deletedMessages,
                 deletingMessages, editingMessageId, allMessages, Server,
                 sendCalls, broadcasts, sends, others, edits, courseId, Transport, deletes>>

(* --------------------------- specification ----------------------------- *)
MessageIds == 1..(TempBase + MaxSends)

\* sending, live push and history paging
Messaging ==
  \/ \E call \in sendCalls : ServerAcceptSend(call)
  \/ \E call \in sendCalls : SendResolved(call)
  \/ \E call \in sendCalls : SendRejected(call)
  \/ OtherSend(<<"a">>, "TEXT")
  \/ DeliverPush
  \/ DuplicatePush
  \/ fetchNextPage

Next ==
  \/ \E messageText \in Drafts :
       sends < MaxSends /\ handleSendMessage(messageText)
  \/ Messaging

Spec == Init /\ [][Next]_vars

\* the same with edit and delete
NextModify ==
  \/ \E messageText \in Drafts :
       sends < MaxSendsModify /\ handleSendMessage(messageText)
  \/ Messaging
  \/ \E messageId \in MessageIds : handleDeleteMessage(messageId)
  \/ \E messageId \in MessageIds : DeleteResolved(messageId)
  \/ \E messageId \in MessageIds : DeleteRejected(messageId)
  \/ \E message \in Range(allMessages) : startEditing(message)
  \/ \E editingText \in EditDrafts : handleEditMessage(editingText)
  \/ \E call \in editCalls : ServerAcceptEdit(call)
  \/ \E call \in editCalls : EditResolved(call)
  \/ \E call \in editCalls : EditRejected(call)

SpecModify == Init /\ [][NextModify]_vars

(* ------------------------ conversation switch -------------------------- *)
\* The courseId prop changes from CourseA to CourseB.  The effect on
\* [courseId] resets the history window and clears the tombstones; it leaves
\* the outbox and the in-progress markers alone.  The live buffer restarts
\* empty with the new conversation's subscription, and the pushes of the old
\* topic no longer reach the client.
SwitchCourse ==
  /\ courseId = CourseA
  /\ courseId' = CourseB
  /\ loadedMessages' = <<>>
  /\ hasNextPage' = TRUE
  /\ nextPage' = 0
  /\ deletedMessages' = {}
  /\ wsMessages' = <<>>
  /\ broadcasts' = <<>>
  /\ UNCHANGED <<pendingMessages, UI, Server, sendCalls, editCalls, sends,
                 others, edits, deletes, Transport>>
  /\ Render

\* sending, live push, history paging and delete, across a conversation
\* switch
NextSwitch ==
  \/ \E messageText \in Drafts :
       sends < MaxSendsModify /\ handleSendMessage(messageText)
  \/ Messaging
  \/ \E messageId \in MessageIds : handleDeleteMessage(messageId)
  \/ \E messageId \in MessageIds : DeleteResolved(messageId)
  \/ \E messageId \in MessageIds : DeleteRejected(messageId)
  \/ SwitchCourse

SpecSwitch == Init /\ [][NextSwitch]_vars

(* -------------------------- transport session -------------------------- *)
\* WebSocketService.  The STOMP client is not part of the repository: it is
\* a collaborator that, once activated, calls the handlers it was given:
\* onConnect when the connection stands, onStompError when the broker
\* refuses, onDisconnect when the connection is gone (an established one, or
\* the one it was trying to establish).  It was created with reconnectDelay
\* 5000, so a client that lost its connection and was not deactivated tries
\* again by itself.  client is "null" or the phase of the client the service
\* holds: "connecting", "connected", "deactivating", "closed".  The service
\* never deactivates a client it replaces: such a client stays active.  Of
\* the replaced clients the model follows only the first onConnect of one
\* that was still connecting; their subscriptions are not followed; and a
\* connect() made while a teardown is in progress is not followed either.
maxReconnectAttempts == 5

Courses == {CourseA, CourseB}

\* this.subscription is null
NoSubscription == [topic |-> "none", live |-> FALSE]

NoneOf == [c \in Courses |-> 0]

PromiseStates == {"pending", "settled"}

ChatState == <<loadedMessages, hasNextPage, nextPage, wsMessages,
               pendingMessages, deletedMessages, UI, allMessages, Server,
               sendCalls, editCalls, broadcasts, sends, others, edits,
               deletes, courseId>>

Frames == <<received, handled, frames>>

Budgets == <<connects, disconnects, subscribes, stompReconnects>>

\* the subscriptions on topic c that the broker serves on the connection of
\* the client the service holds: the one the service refers to, and those it
\* no longer refers to
LiveOn(c) ==
  orphans[c] + (IF subscription.live /\ subscription.topic = c THEN 1 ELSE 0)

LiveSubscriptions == LiveOn(CourseA) + LiveOn(CourseB)

\* the STOMP clients that were activated and never deactivated
ActiveClients == (IF client = "null" THEN 0 ELSE 1) + strays

\* the connection of the held client is over: the broker serves none of its
\* subscriptions any more
Ended(sub) == [sub EXCEPT !.live = FALSE]

\* the body of connect(config): the config is kept and a new client, with
\* the reconnecting onDisconnect handler, is activated; the client held
\* before is neither deactivated nor referred to any more
activate(by) ==
  /\ client # "deactivating"
  /\ config' = TRUE
  /\ client' = "connecting"
  /\ onDisconnect' = "reconnect"
  /\ startedBy' = by
  /\ connectPromise' = "pending"
  /\ strays' = IF client = "null" \/ strays = MaxStrays THEN strays
                ELSE strays + 1
  /\ strayConnecting' =
       IF client = "connecting"
       THEN [strayConnecting EXCEPT
               ![IF connectPromise = "pending" THEN "pending" ELSE "settled"] = @ + 1]
       ELSE strayConnecting
  /\ subscription' = Ended(subscription)
  /\ orphans' = NoneOf

\* the owner calls connect(config)
connect ==
  /\ connects < MaxConnects
  /\ connects' = connects + 1
  /\ activate("owner")
  /\ topic' = CourseA
  /\ UNCHANGED <<isConnected, reconnectAttempts, timers, staleTimers,
                 failedReconnects, waiters, teardownPromise, orphanPromises,
                 reconnecting, reconnectNotice, disconnects, subscribes,
                 stompReconnects, Frames, ChatState>>

\* a connect attempt that a reconnect timer started ends without a connection
failedReconnect ==
  IF client = "connecting" /\ startedBy = "timer"
  THEN failedReconnects + 1 ELSE failedReconnects

\* subscribeToMessages(c), called while this.subscription is held and the
\* held client is in the given phase: without a client nothing happens; on
\* a connected client the wait ends at once and the new subscription
\* replaces the reference (the subscription referred to before is not
\* cancelled); otherwise the call waits, polling, for the client to connect
subscribeToMessages(c, held, phase) ==
  IF phase = "null"
  THEN subscription' = held /\ UNCHANGED <<orphans, waiters>>
  ELSE IF phase = "connected"
  THEN /\ subscription' = [topic |-> c, live |-> TRUE]
       /\ orphans' = IF held.live
                     THEN [orphans EXCEPT ![held.topic] = @ + 1]
                     ELSE orphans
       /\ UNCHANGED waiters
  ELSE /\ subscription' = held
       /\ waiters' = [waiters EXCEPT ![c] = @ + 1]
       /\ UNCHANGED orphans

onConnectKeepsAttempts ==
  /\ client = "connecting"
  /\ isConnected' = TRUE
  /\ client' = "connected"
  /\ subscribeToMessages(topic, subscription, "connected")
  /\ connectPromise' = IF connectPromise = "pending" THEN "resolved"
                       ELSE connectPromise
  /\ reconnectNotice' =
       (reconnectNotice \/ (connectPromise = "pending" /\ startedBy = "timer"))
  /\ failedReconnects' = 0
  /\ UNCHANGED <<config, reconnectAttempts, onDisconnect, timers, staleTimers,
                 startedBy, topic, strays, strayConnecting, teardownPromise,
                 orphanPromises, reconnecting, Budgets, Frames, ChatState>>

\* the client's onConnect handler: the flag, the counter, the subscription
\* (not awaited), and the promise of the connect() that created the client;
\* the connect() of a reconnect timer then reports onReconnect
onConnect ==
  /\ client = "connecting"
  /\ isConnected' = TRUE
  /\ reconnectAttempts' = 0
  /\ client' = "connected"
  /\ subscribeToMessages(topic, subscription, "connected")
  /\ connectPromise' = IF connectPromise = "pending" THEN "resolved"
                       ELSE connectPromise
  /\ reconnectNotice' =
       (reconnectNotice \/ (connectPromise = "pending" /\ startedBy = "timer"))
  /\ failedReconnects' = 0
  /\ UNCHANGED <<config, onDisconnect, timers, staleTimers, startedBy, topic,
                 strays, strayConnecting, teardownPromise, orphanPromises,
                 reconnecting, Budgets, Frames, ChatState>>

\* the onConnect handler of a client that was replaced while it was
\* connecting: the same handler, but this.client is the client held now
strayOnConnect(p) ==
  /\ strayConnecting[p] > 0
  /\ strayConnecting' = [strayConnecting EXCEPT ![p] = @ - 1]
  /\ isConnected' = TRUE
  /\ reconnectAttempts' = 0
  /\ subscribeToMessages(topic, subscription, client)
  /\ UNCHANGED <<client, config, onDisconnect, timers, staleTimers, startedBy,
                 failedReconnects, topic, strays, connectPromise,
                 teardownPromise, orphanPromises, reconnecting,
                 reconnectNotice, Budgets, Frames, ChatState>>

\* the client's onStompError handler: the flag is cleared and the promise of
\* connect() is rejected; this.subscription is left as it is
onStompError ==
  /\ client \in {"connecting", "connected"}
  /\ isConnected' = FALSE
  /\ client' = "closed"
  /\ connectPromise' = IF connectPromise = "pending" THEN "rejected"
                       ELSE connectPromise
  /\ subscription' = Ended(subscription)
  /\ orphans' = NoneOf
  /\ failedReconnects' = failedReconnect
  /\ UNCHANGED <<config, reconnectAttempts, onDisconnect, timers, staleTimers,
                 startedBy, topic, waiters, strays, strayConnecting,
                 teardownPromise, orphanPromises, reconnecting,
                 reconnectNotice, Budgets, Frames, ChatState>>

\* the onDisconnect handler that connect() installs: while the budget
\* lasts, count the attempt and schedule a reconnect
onDisconnectReconnect ==
  /\ client \in {"connecting", "connected"}
  /\ onDisconnect = "reconnect"
  /\ isConnected' = FALSE
  /\ subscription' = NoSubscription
  /\ orphans' = NoneOf
  /\ IF reconnectAttempts < maxReconnectAttempts
     THEN /\ reconnectAttempts' = reconnectAttempts + 1
          /\ timers' = timers + 1
     ELSE UNCHANGED <<reconnectAttempts, timers>>
  /\ client' = "closed"
  /\ failedReconnects' = failedReconnect
  /\ UNCHANGED <<config, onDisconnect, staleTimers, startedBy, topic, waiters,
                 strays, strayConnecting, connectPromise, teardownPromise,
                 orphanPromises, reconnecting, reconnectNotice, Budgets,
                 Frames, ChatState>>

\* reconnectDelay: 5000 in the client's options: a client that lost its
\* connection and was not deactivated connects again by itself
stompReconnect ==
  /\ client = "closed"
  /\ stompReconnects < MaxStompReconnects
  /\ stompReconnects' = stompReconnects + 1
  /\ client' = "connecting"
  /\ UNCHANGED <<config, isConnected, subscription, orphans, reconnectAttempts,
                 onDisconnect, timers, staleTimers, startedBy,
                 failedReconnects, topic, waiters, strays, strayConnecting,
                 connectPromise, teardownPromise, orphanPromises,
                 reconnecting, reconnectNotice, connects, disconnects,
                 subscribes, Frames, ChatState>>

\* the callback of the reconnect timer: connect again if a config is kept
reconnectTimer(stale) ==
  /\ timers > 0
  /\ IF stale THEN staleTimers > 0 ELSE timers > staleTimers
  /\ timers' = timers - 1
  /\ staleTimers' = IF stale THEN staleTimers - 1 ELSE staleTimers
  /\ IF config THEN activate("timer")
     ELSE UNCHANGED <<config, client, onDisconnect, startedBy, connectPromise,
                      strays, strayConnecting, subscription, orphans>>
  /\ UNCHANGED <<isConnected, reconnectAttempts, failedReconnects, topic,
                 waiters, teardownPromise, orphanPromises, reconnecting,
                 reconnectNotice, Budgets, Frames, ChatState>>

\* the promise executor of disconnect(): a connected service unsubscribes,
\* installs the teardown handler, which holds the resolver of this call's
\* promise and replaces the handler installed before, and deactivates its
\* client; any other resolves the promise at once
teardown ==
  /\ staleTimers' = timers
  /\ IF client # "null" /\ isConnected
     THEN /\ subscription' = NoSubscription
          /\ onDisconnect' = "teardown"
          /\ client' = "deactivating"
          /\ orphanPromises' = IF teardownPromise = "pending"
                               THEN orphanPromises + 1 ELSE orphanPromises
          /\ teardownPromise' = "pending"
     ELSE UNCHANGED <<subscription, onDisconnect, client, orphanPromises,
                      teardownPromise>>

\* the owner calls disconnect()
disconnect ==
  /\ disconnects < MaxDisconnects
  /\ disconnects' = disconnects + 1
  /\ teardown
  /\ reconnecting' = IF reconnecting = "awaiting" /\ client # "null" /\ isConnected
                     THEN "orphaned" ELSE reconnecting
  /\ UNCHANGED <<config, isConnected, reconnectAttempts, timers, startedBy,
                 failedReconnects, topic, orphans, waiters, strays,
                 strayConnecting, connectPromise, reconnectNotice, connects,
                 subscribes, stompReconnects, Frames, ChatState>>

\* the onDisconnect handler that disconnect() installs; a reconnect() that
\* awaits this teardown goes on to connect(this.config), which by now is
\* null: reading config.userId throws and the promise is rejected
onDisconnectTeardown ==
  /\ client = "deactivating"
  /\ onDisconnect = "teardown"
  /\ isConnected' = FALSE
  /\ client' = "null"
  /\ config' = FALSE
  /\ reconnectAttempts' = 0
  /\ failedReconnects' = 0
  /\ teardownPromise' = "none"
  /\ subscription' = Ended(subscription)
  /\ orphans' = NoneOf
  /\ reconnecting' = IF reconnecting = "awaiting" THEN "failed" ELSE reconnecting
  /\ connectPromise' = IF reconnecting = "awaiting" THEN "rejected"
                       ELSE connectPromise
  /\ UNCHANGED <<onDisconnect, timers, staleTimers, startedBy, topic, waiters,
                 strays, strayConnecting, orphanPromises, reconnectNotice,
                 Budgets, Frames, ChatState>>

\* the owner calls reconnect(): with a config, disconnect() is awaited and
\* then connect(this.config) is called
reconnect ==
  /\ config
  /\ reconnecting = "no"
  /\ IF client # "null" /\ isConnected
     THEN /\ teardown
          /\ reconnecting' = "awaiting"
          /\ UNCHANGED <<config, startedBy, connectPromise, strays,
                         strayConnecting, orphans>>
     ELSE /\ staleTimers' = timers
          /\ activate("owner")
          /\ reconnecting' = "connecting"
          /\ UNCHANGED <<orphanPromises, teardownPromise>>
  /\ UNCHANGED <<isConnected, reconnectAttempts, timers, failedReconnects,
                 topic, waiters, reconnectNotice, Budgets, Frames, ChatState>>

\* unsubscribe(): the subscription the service refers to is cancelled and
\* the reference cleared
unsubscribe == NoSubscription

\* the owner calls subscribeToCourse(c)
subscribeToCourse(c) ==
  /\ subscribes < MaxSubscribes
  /\ subscribes' = subscribes + 1
  /\ subscribeToMessages(c, unsubscribe, client)
  /\ topic' = IF config THEN c ELSE topic
  /\ UNCHANGED <<client, config, isConnected, reconnectAttempts, onDisconnect,
                 timers, staleTimers, startedBy, failedReconnects, strays,
                 strayConnecting, connectPromise, teardownPromise,
                 orphanPromises, reconnecting, reconnectNotice, connects,
                 disconnects, stompReconnects, Frames, ChatState>>

\* a waiting subscribeToMessages(c) finds the held client connected
waitForStompConnected(c) ==
  /\ waiters[c] > 0
  /\ client = "connected"
  /\ subscription' = [topic |-> c, live |-> TRUE]
  /\ orphans' = IF subscription.live
                THEN [orphans EXCEPT ![subscription.topic] = @ + 1]
                ELSE orphans
  /\ waiters' = [waiters EXCEPT ![c] = @ - 1]
  /\ UNCHANGED <<client, config, isConnected, reconnectAttempts, onDisconnect,
                 timers, staleTimers, startedBy, failedReconnects, topic,
                 strays, strayConnecting, connectPromise, teardownPromise,
                 orphanPromises, reconnecting, reconnectNotice, Budgets,
                 Frames, ChatState>>

\* a waiting subscribeToMessages(c) gives up: the held client was not
\* connected for the length of the wait, and no subscription is made
waitTimedOut(c) ==
  /\ waiters[c] > 0
  /\ client # "connected"
  /\ waiters' = [waiters EXCEPT ![c] = @ - 1]
  /\ UNCHANGED <<client, config, isConnected, subscription, orphans,
                 reconnectAttempts, onDisconnect, timers, staleTimers,
                 startedBy, failedReconnects, topic, strays, strayConnecting,
                 connectPromise, teardownPromise, orphanPromises,
                 reconnecting, reconnectNotice, Budgets, Frames, ChatState>>

\* the bodies a frame can carry: a message, a TEXT message without content,
\* and a text that does not end
Bodies == {<<"{", "c", "}">>, <<"{", "}">>, <<"{", "c">>}

\* JSON.parse(message.body): throws unless the text is a complete object
JSONparse(body) ==
  IF body[1] = "{" /\ body[Len(body)] = "}"
  THEN [ok |-> TRUE, content |-> IF Len(body) = 3 THEN body[2] ELSE ""]
  ELSE [ok |-> FALSE, content |-> ""]

onFrameNoCatch(h, f) ==
  IF config
  THEN Append(h, [n |-> f.n, content |-> JSONparse(f.body).content])
  ELSE h

\* the callback of a subscription, for one frame: the body is parsed and
\* the message handed to config.onMessage; a body that does not parse is
\* caught and dropped
onFrame(h, f) ==
  IF JSONparse(f.body).ok /\ config
  THEN Append(h, [n |-> f.n, content |-> JSONparse(f.body).content])
  ELSE h

RECURSIVE Callbacks(_, _, _)
\* the callbacks of k subscriptions run for the frame, one after another
Callbacks(h, f, k) ==
  IF k = 0 THEN h ELSE Callbacks(onFrame(h, f), f, k - 1)

Copies(k, x) == [i \in 1..k |-> x]

\* the broker broadcasts a frame on topic c: the callback of every
\* subscription it serves on that topic runs
receiveFrame(c, body) ==
  /\ frames < MaxFrames
  /\ LiveOn(c) > 0
  /\ frames' = frames + 1
  /\ LET f == [n |-> frames + 1, body |-> body]
     IN /\ received' = received \o Copies(LiveOn(c), f)
        /\ handled' = Callbacks(handled, f, LiveOn(c))
  /\ UNCHANGED <<client, config, isConnected, subscription, orphans,
                 reconnectAttempts, onDisconnect, timers, staleTimers,
                 startedBy, failedReconnects, topic, waiters, strays,
                 strayConnecting, connectPromise, teardownPromise,
                 orphanPromises, reconnecting, reconnectNotice, Budgets,
                 ChatState>>

\* getConnectionState(): "DISCONNECTED" without a client, else the client's
\* activation state
getConnectionState ==
  IF client = "null" THEN "DISCONNECTED"
  ELSE IF client = "deactivating" THEN "DEACTIVATING" ELSE "ACTIVE"

\* isWebSocketConnected()
isWebSocketConnected == isConnected /\ client = "connected"

NextTransport ==
  \/ connect
  \/ onConnect
  \/ onStompError
  \/ onDisconnectReconnect
  \/ stompReconnect
  \/ \E stale \in BOOLEAN : reconnectTimer(stale)
  \/ disconnect
  \/ onDisconnectTeardown
  \/ reconnect

SpecTransport == Init /\ [][NextTransport]_vars

\* the subscriptions of the session
NextSubscribe ==
  \/ connect
  \/ onConnect
  \/ \E p \in PromiseStates : strayOnConnect(p)
  \/ onDisconnectReconnect
  \/ \E stale \in BOOLEAN : reconnectTimer(stale)
  \/ \E c \in Courses : subscribeToCourse(c)
  \/ \E c \in Courses : waitForStompConnected(c)
  \/ \E c \in Courses : waitTimedOut(c)

SpecSubscribe == Init /\ [][NextSubscribe]_vars

\* the frames of the session
NextDelivery ==
  \/ connect
  \/ onConnect
  \/ onDisconnectReconnect
  \/ \E stale \in BOOLEAN : reconnectTimer(stale)
  \/ \E c \in Courses : subscribeToCourse(c)
  \/ \E c \in Courses : waitForStompConnected(c)
  \/ \E c \in Courses : waitTimedOut(c)
  \/ \E c \in Courses, body \in Bodies : receiveFrame(c, body)

SpecDelivery == Init /\ [][NextDelivery]_vars

\* the transport session but for the pending onReconnect report
Session == <<client, config, isConnected, subscription, reconnectAttempts,
             onDisconnect, timers, staleTimers, startedBy, failedReconnects,
             connects, topic, orphans, waiters, received, handled, frames,
             connectPromise, teardownPromise, orphanPromises, reconnecting,
             strays, strayConnecting, disconnects, subscribes,
             stompReconnects>>

onReconnectDropsSettled ==
  /\ reconnectNotice
  /\ reconnectNotice' = FALSE
  /\ pendingMessages' =
       FilterSeq(pendingMessages,
                 {p \in Range(pendingMessages) : p.status = "PENDING"})
  /\ UNCHANGED <<History, wsMessages, deletedMessages, UI, Server, sendCalls,
                 editCalls, broadcasts, sends, others, edits, deletes,
                 courseId, Session>>
  /\ Render

\* the onReconnect callback the chat gives useChatWebSocket: the entries
\* that were sent leave the outbox
onReconnect ==
  /\ reconnectNotice
  /\ reconnectNotice' = FALSE
  /\ pendingMessages' =
       FilterSeq(pendingMessages,
                 {p \in Range(pendingMessages) : p.status # "SUCCESS"})
  /\ UNCHANGED <<History, wsMessages, deletedMessages, UI, Server, sendCalls,
                 editCalls, broadcasts, sends, others, edits, deletes,
                 courseId, Session>>
  /\ Render

\* sending while the connection is lost and found again
NextReconnect ==
  \/ \E messageText \in Drafts :
       sends < MaxSends /\ handleSendMessage(messageText)
  \/ \E call \in sendCalls : ServerAcceptSend(call)
  \/ \E call \in sendCalls : SendResolved(call)
  \/ \E call \in sendCalls : SendRejected(call)
  \/ DeliverPush
  \/ connect
  \/ onConnect
  \/ onDisconnectReconnect
  \/ \E stale \in BOOLEAN : reconnectTimer(stale)
  \/ onReconnect

SpecReconnect == Init /\ [][NextReconnect]_vars

(* ---------------- the reconciler on its own, any inputs ----------------- *)
\* An outbox entry submitted at time 2 * SkewMs: still PENDING, failed, or
\* accepted by the server under id 1.
OutboxPool ==
  { Msg(TempBase + 1, TempBase + 1, <<"a">>, "TEXT", Me, 2 * SkewMs, "PENDING"),
    Msg(TempBase + 1, TempBase + 1, <<"a">>, "TEXT", Me, 2 * SkewMs, "ERROR"),
    Msg(1, TempBase + 1, <<"a">>, "TEXT", Me, 2 * SkewMs, "SUCCESS") }

\* creation times around the entry's: 11 s, 10 s and 9.999 s before and after
TimePool ==
  { 2 * SkewMs + d : d \in { 0 - (SkewMs + 1000), 0 - SkewMs, 0 - (SkewMs - 1),
                            0, SkewMs - 1, SkewMs, SkewMs + 1000 } }

\* Confirmed messages: like the entry, or differing from it in one of
\* content, sender and kind; with the entry's server id or another one.
MessagePool ==
  { Msg(id, 0, k[1], k[2], k[3], t, "NONE") :
      id \in {1, 2},
      k \in { <<<<"a">>, "TEXT", Me>>, <<<<"b">>, "TEXT", Me>>,
              <<<<"a">>, "FILE", Me>>, <<<<"a">>, "TEXT", Other>> },
      t \in TimePool }

\* the outbox holds one entry
InitReconcile ==
  /\ loadedMessages = <<>>
  /\ hasNextPage = TRUE
  /\ nextPage = 0
  /\ wsMessages = <<>>
  /\ \E p \in OutboxPool : pendingMessages = <<p>>
  /\ deletedMessages = {}
  /\ deletingMessages = {}
  /\ updatingMessages = {}
  /\ editingMessageId = 0
  /\ allMessages = Reconcile(loadedMessages, wsMessages, pendingMessages,
                             deletedMessages)
  /\ serverMessages = <<>>
  /\ serverSeq = 0
  /\ sendCalls = {}
  /\ editCalls = {}
  /\ broadcasts = <<>>
  /\ sends = 1
  /\ others = 0
  /\ edits = 0
  /\ deletes = 0
  /\ courseId = CourseA
  /\ TransportInit

\* a live push of any message
PushAny(m) ==
  /\ Len(wsMessages) + nextPage < MaxMerged
  /\ LivePush(m)
  /\ UNCHANGED <<hasNextPage, nextPage, pendingMessages, deletedMessages, UI,
                 Server, sendCalls, editCalls, broadcasts, sends, others,
                 edits, courseId, Transport, deletes>>
  /\ Render

\* a history page holding any message
PageAny(m) ==
  /\ Len(wsMessages) + nextPage < MaxMerged
  /\ loadedMessages' = appendPage(loadedMessages, <<m>>)
  /\ nextPage' = nextPage + 1
  /\ UNCHANGED <<hasNextPage, wsMessages, pendingMessages, deletedMessages,
                 UI, Server, sendCalls, editCalls, broadcasts, sends, others,
                 edits, courseId, Transport, deletes>>
  /\ Render

\* the remote delete of a message the user may delete succeeds
DeleteAny(messageId) ==
  /\ deletes < MaxDeletes
  /\ \E i \in 1..Len(allMessages) :
       allMessages[i].id = messageId /\ canDeleteMessage(allMessages[i])
  /\ deleteSucceeded(messageId)
  /\ deletes' = deletes + 1
  /\ UNCHANGED <<hasNextPage, nextPage, pendingMessages, deletingMessages,
                 updatingMessages, editingMessageId, Server, sendCalls,
                 editCalls, broadcasts, sends, others, edits, courseId, Transport>>
  /\ Render

NextReconcile ==
  \/ \E m \in MessagePool : PushAny(m)
  \/ \E m \in MessagePool : PageAny(m)
  \/ \E messageId \in MessageIds : DeleteAny(messageId)

SpecReconcile == InitReconcile /\ [][NextReconcile]_vars

(* ------------------------------ properties ----------------------------- *)
\* The logical message an entry stands for: a message the current user
\* submitted is known by its tempId, whichever copy it is (the outbox entry
\* or the stored message the server made of it); any other by its id.
LogicalKey(m) == IF m.tempId # 0 THEN m.tempId ELSE m.id

LogicalKeys(s) == {LogicalKey(s[i]) : i \in 1..Len(s)}

Occurrences(s, key) == Cardinality({i \in 1..Len(s) : LogicalKey(s[i]) = key})

\* every send call has been answered and the answer handled, and every push
\* has arrived
Settled == sendCalls = {} /\ broadcasts = <<>>

NoLogicalDuplicate ==
  \A i, j \in 1..Len(allMessages) :
    i # j => LogicalKey(allMessages[i]) # LogicalKey(allMessages[j])

NothingMissing ==
  /\ \A m \in Range(loadedMessages) \cup Range(wsMessages) :
       m.id \in deletedMessages \/ LogicalKey(m) \in LogicalKeys(allMessages)
  /\ \A p \in Range(pendingMessages) :
       p.id \in deletedMessages \/ LogicalKey(p) \in LogicalKeys(allMessages)
  /\ \A m \in Range(serverMessages) :
       m.id > Len(InitialServerMessages) =>
         m.id \in deletedMessages \/ m.id \in Ids(allMessages)

C2_NeverTwice == NoLogicalDuplicate

\* the outbox entries of submission tempId
EntriesOf(tempId) ==
  {i \in 1..Len(pendingMessages) : pendingMessages[i].tempId = tempId}

\* C3: a submitted message has one outbox entry, PENDING as long as its send
\* call is unanswered; once the call has succeeded with server id S the
\* entry is SUCCESS with id S; and once the push of S is in the live buffer
\* the reconciled list holds exactly one entry for the message, with id S.
C3_SingleSend ==
  /\ \A call \in sendCalls :
       /\ Cardinality(EntriesOf(call.tempId)) = 1
       /\ \A i \in EntriesOf(call.tempId) :
            /\ pendingMessages[i].status = "PENDING"
            /\ pendingMessages[i].id = call.tempId
  /\ \A i \in 1..Len(pendingMessages) :
       LET p == pendingMessages[i] IN
       p.status = "SUCCESS" =>
         /\ \E m \in Range(serverMessages) :
              m.tempId = p.tempId /\ m.id = p.id
         /\ p.id \in Ids(wsMessages) =>
              /\ Occurrences(allMessages, p.tempId) = 1
              /\ \A j \in 1..Len(allMessages) :
                   LogicalKey(allMessages[j]) = p.tempId =>
                     allMessages[j].id = p.id

\* one submission, accepted under id 3, its push arrived: shown once, as 3
C3_Witness ==
  /\ Len(pendingMessages) = 1
  /\ pendingMessages[1].status = "SUCCESS"
  /\ pendingMessages[1].id = 3
  /\ 3 \in Ids(wsMessages)
  /\ Cardinality({j \in 1..Len(allMessages) :
                    allMessages[j].content = pendingMessages[1].content
                    /\ allMessages[j].id = 3}) = 1
  /\ sends = 1

Without(s, id) == FilterSeq(s, {m \in Range(s) : m.id # id})

\* the step in which the remote delete of id succeeds: the server drops it
DeleteSucceeds(id) ==
  /\ id \in deletingMessages
  /\ id \in Ids(serverMessages)
  /\ id \notin Ids(serverMessages')

\* the step in which the remote delete of id fails: the call ends and the
\* server still has what it had
DeleteFails(id) ==
  /\ id \in deletingMessages
  /\ id \notin deletingMessages'
  /\ serverMessages' = serverMessages

\* C6: a successful remote delete of M tombstones M, a tombstone is never
\* lifted, and a tombstoned id is never in the reconciled list, whatever is
\* pushed, re-added to the history window or patched afterwards.
C6_Tombstone ==
  [][ /\ \A id \in MessageIds : DeleteSucceeds(id) => id \in deletedMessages'
      /\ deletedMessages \subseteq deletedMessages'
      /\ \A id \in deletedMessages' : id \notin Ids(allMessages') ]_vars

\* a deleted message that a stale push has put back into the live buffer and
\* the history window
C6_Witness ==
  \E id \in deletedMessages :
    /\ id \in Ids(wsMessages)
    /\ id \in Ids(loadedMessages)
    /\ id \notin Ids(allMessages)

\* the delete request of id changes nothing but the in-progress markers
DeleteRequestFrame(id) ==
  (id \notin deletingMessages /\ id \in deletingMessages') =>
    /\ loadedMessages' = loadedMessages
    /\ wsMessages' = wsMessages
    /\ deletedMessages' = deletedMessages
    /\ allMessages' = allMessages
    /\ id \in Ids(allMessages')

\* a failed delete of id clears the in-progress marker of id, nothing else
DeleteFailureFrame(id) ==
  DeleteFails(id) =>
    /\ loadedMessages' = loadedMessages
    /\ wsMessages' = wsMessages
    /\ deletedMessages' = deletedMessages
    /\ allMessages' = allMessages
    /\ deletingMessages' = deletingMessages \ {id}
    /\ updatingMessages' = updatingMessages

\* C7: the delete request changes neither history window, live buffer,
\* tombstones nor the reconciled list; while the call is in flight the
\* message stays in the history window and the live buffer, and is shown as
\* long as one of the two holds it; a failed call leaves history window,
\* live buffer and tombstones as they are and clears only the in-progress
\* marker of that id.
C7_DeleteNotOptimistic ==
  [][ \A id \in MessageIds :
        /\ DeleteRequestFrame(id)
        /\ (id \in deletingMessages /\ id \in deletingMessages') =>
             /\ id \in Ids(loadedMessages) => id \in Ids(loadedMessages')
             /\ id \in Ids(wsMessages) => id \in Ids(wsMessages')
             /\ id \in Ids(loadedMessages') \cup Ids(wsMessages') =>
                  id \in Ids(allMessages')
        /\ DeleteFailureFrame(id) ]_vars

\* C7 as stated: ... and while the call is in flight the message is in the
\* reconciled list.
C7_AsStated ==
  [][ \A id \in MessageIds :
        /\ DeleteRequestFrame(id)
        /\ (id \in deletingMessages /\ id \in deletingMessages') =>
             /\ id \in Ids(loadedMessages) => id \in Ids(loadedMessages')
             /\ id \in Ids(wsMessages) => id \in Ids(wsMessages')
             /\ id \in Ids(allMessages')
        /\ DeleteFailureFrame(id) ]_vars

\* a delete call in flight for a message of the history window and the live
\* buffer
C7_Witness ==
  \E id \in deletingMessages :
    /\ id \in Ids(loadedMessages)
    /\ id \in Ids(wsMessages)
    /\ id \in Ids(allMessages)
    /\ id \in Ids(serverMessages)
    /\ deletedMessages = {}

\* C8: when the remote delete of M succeeds, M leaves the history window and
\* the live buffer, M joins the tombstones, the in-progress marker of M is
\* cleared, and every other message, outbox entry and tombstone stays.
C8_DeleteFrame ==
  [][ \A id \in MessageIds :
        DeleteSucceeds(id) =>
          /\ loadedMessages' = Without(loadedMessages, id)
          /\ wsMessages' = Without(wsMessages, id)
          /\ deletedMessages' = deletedMessages \cup {id}
          /\ deletingMessages' = deletingMessages \ {id}
          /\ pendingMessages' = pendingMessages ]_vars

\* a message deleted out of a history window and a live buffer that hold
\* other messages
C8_Witness ==
  /\ deletedMessages # {}
  /\ Len(loadedMessages) >= 2
  /\ Len(wsMessages) >= 1
  /\ \A id \in deletedMessages :
       id \notin Ids(loadedMessages) /\ id \notin Ids(wsMessages)

\* the merged history/live set: the history window, and the live messages
\* whose id the history window does not hold
Merged ==
  Range(loadedMessages) \cup
    {m \in Range(wsMessages) : m.id \notin Ids(loadedMessages)}

SameLook(m, p) ==
  m.content = p.content /\ m.senderId = p.senderId /\ m.type = p.type

Shown(p) == p \in Range(allMessages)

\* C4: a SUCCESS entry created at T is dropped whenever the merged set holds
\* a message with its id, or one of the same content, sender and kind created
\* within [T - 10 s, T + 10 s], the ends included.
C4_ClosedInterval ==
  \A p \in Range(pendingMessages) :
    ( /\ p.status = "SUCCESS"
      /\ \E m \in Merged :
           \/ m.id = p.id
           \/ SameLook(m, p) /\ Abs(m.createdAt - p.createdAt) <= SkewMs )
    => ~Shown(p)

\* C5 as stated: a SUCCESS entry stays when no merged message has its id and
\* every merged message differs in sender, content or kind, or was created
\* 11 s or more away.
C5_AsStated ==
  \A p \in Range(pendingMessages) :
    ( /\ p.status = "SUCCESS"
      /\ \A m \in Merged :
           /\ m.id # p.id
           /\ ~SameLook(m, p) \/ Abs(m.createdAt - p.createdAt) >= SkewMs + 1000 )
    => Shown(p)

\* C5: ... and stays, provided its id is not tombstoned.
C5_StaysUnlessTombstoned ==
  \A p \in Range(pendingMessages) :
    ( /\ p.status = "SUCCESS"
      /\ p.id \notin deletedMessages
      /\ \A m \in Merged :
           /\ m.id # p.id
           /\ ~SameLook(m, p) \/ Abs(m.createdAt - p.createdAt) >= SkewMs + 1000 )
    => Shown(p)

\* a SUCCESS entry shown beside a pushed message of the same content, sender
\* and kind that was created 11 s earlier
C5_Witness ==
  \E p \in Range(pendingMessages) :
    /\ p.status = "SUCCESS"
    /\ Shown(p)
    /\ \E m \in Range(wsMessages) :
         /\ m \in Merged
         /\ SameLook(m, p)
         /\ p.createdAt - m.createdAt = SkewMs + 1000

\* C9: a PENDING or ERROR entry whose id is not tombstoned is in the
\* reconciled list, whatever the history window and the live buffer hold.
C9_PendingAndErrorKept ==
  \A p \in Range(pendingMessages) :
    (p.status \in {"PENDING", "ERROR"} /\ p.id \notin deletedMessages)
      => Shown(p)

\* a PENDING entry shown beside a message of the same content, sender and
\* kind created at the same time
C9_Witness ==
  \E p \in Range(pendingMessages) :
    /\ p.status = "PENDING"
    /\ Shown(p)
    /\ \E m \in Merged : SameLook(m, p) /\ m.createdAt = p.createdAt

\* C10: the reconciled list is ordered by createdAt, newest first.
C10_NewestFirst ==
  \A i \in 1..(Len(allMessages) - 1) :
    allMessages[i].createdAt >= allMessages[i + 1].createdAt

\* three entries of three different times, from the history window, the
\* live buffer and the outbox
C10_Witness ==
  /\ Len(allMessages) = 3
  /\ allMessages[1].createdAt > allMessages[2].createdAt
  /\ allMessages[2].createdAt > allMessages[3].createdAt
  /\ \E i \in 1..3 : allMessages[i] \in Range(pendingMessages)
  /\ \E i \in 1..3 : allMessages[i] \in Range(wsMessages)
  /\ \E i \in 1..3 : /\ allMessages[i] \in Range(loadedMessages)
                     /\ allMessages[i] \notin Range(wsMessages)

\* entries of equal createdAt stand in ascending order of id
TiesAscending ==
  \A i \in 1..(Len(allMessages) - 1) :
    allMessages[i].createdAt = allMessages[i + 1].createdAt
      => allMessages[i].id < allMessages[i + 1].id

\* entries of equal createdAt stand in descending order of id
TiesDescending ==
  \A i \in 1..(Len(allMessages) - 1) :
    allMessages[i].createdAt = allMessages[i + 1].createdAt
      => allMessages[i].id > allMessages[i + 1].id

\* C11: the order of the reconciled list depends on the set of messages
\* only: entries of equal createdAt are ordered by id (one direction for the
\* whole list), whatever the order or the source the messages came in.
C11_TiesById == TiesAscending \/ TiesDescending

\* the messages the chat holds, wherever it holds them
Held ==
  Range(loadedMessages) \cup Range(wsMessages) \cup Range(pendingMessages)
    \cup Range(allMessages)

\* C12: when the conversation changes from A to B the tombstones are
\* cleared, and from then on history window, live buffer, outbox and
\* reconciled list hold messages of B only, also when a send for A was
\* PENDING or ERROR at the switch or completes after it.
C12_SwitchClears ==
  [][ /\ (courseId = CourseA /\ courseId' = CourseB) => deletedMessages' = {}
      /\ courseId' = CourseB => \A m \in Held' : m.courseId = CourseB ]_vars

TempIds(s) == {s[i].tempId : i \in 1..Len(s)}

\* the send calls a step issues
NewSendCalls == {c \in sendCalls' : c.state = "sent" /\ c \notin sendCalls}

\* C13: a step issues at most one send call; it issues one exactly when it
\* adds an outbox entry; the entry is added at the end, is PENDING, carries
\* the call's tempId, which no other outbox entry has, and the call's
\* content, which is a trimmed non-blank text (a blank draft adds no entry
\* and issues no call).
C13_SubmitAddsOne ==
  [][ /\ Cardinality(NewSendCalls) <= 1
      /\ Len(pendingMessages') \in {Len(pendingMessages), Len(pendingMessages) + 1}
      /\ NewSendCalls # {} <=> Len(pendingMessages') = Len(pendingMessages) + 1
      /\ \A c \in NewSendCalls :
           LET e == pendingMessages'[Len(pendingMessages')] IN
           /\ SubSeq(pendingMessages', 1, Len(pendingMessages)) = pendingMessages
           /\ e.status = "PENDING"
           /\ e.tempId = c.tempId
           /\ e.tempId \notin TempIds(pendingMessages)
           /\ \A d \in sendCalls : d.tempId # c.tempId
           /\ e.content = c.content
           /\ c.content # <<>>
           /\ Trim(c.content) = c.content ]_vars

\* two submissions, both calls unanswered: two PENDING entries of two tempIds
C13_Witness ==
  /\ Len(pendingMessages) = 2
  /\ pendingMessages[1].tempId # pendingMessages[2].tempId
  /\ \A i \in 1..2 : /\ pendingMessages[i].status = "PENDING"
                     /\ \E c \in sendCalls : c.tempId = pendingMessages[i].tempId
  /\ Cardinality(sendCalls) = 2

\* the step in which the answer of a successful send call is handled
SendSucceeds(c) == c \in sendCalls /\ c.state = "ok" /\ c \notin sendCalls'

\* C14: when the send call of tempId t has succeeded with server id s, the
\* one outbox entry of tempId t becomes SUCCESS with id s, keeps tempId t and
\* its other fields, and every other outbox entry stays as it is, in
\* whatever order the calls complete.
C14_MarkSentFrame ==
  [][ \A c \in sendCalls :
        SendSucceeds(c) =>
          /\ Len(pendingMessages') = Len(pendingMessages)
          /\ Cardinality(EntriesOf(c.tempId)) = 1
          /\ \A i \in 1..Len(pendingMessages) :
               IF pendingMessages[i].tempId = c.tempId
               THEN /\ pendingMessages'[i] =
                         [pendingMessages[i] EXCEPT !.status = "SUCCESS",
                                                    !.id = c.id]
                    /\ pendingMessages'[i].tempId = c.tempId
                    /\ pendingMessages[i].status = "PENDING"
               ELSE pendingMessages'[i] = pendingMessages[i] ]_vars

\* the second of two submissions has succeeded while the first is still
\* unanswered
C14_Witness ==
  /\ Len(pendingMessages) = 2
  /\ pendingMessages[1].status = "PENDING"
  /\ pendingMessages[2].status = "SUCCESS"
  /\ pendingMessages[2].id \in Ids(serverMessages)
  /\ pendingMessages[2].tempId = TempBase + 2
  /\ \E c \in sendCalls : c.tempId = pendingMessages[1].tempId

\* the step in which a send call fails: the call ends unanswered
SendFails(c) ==
  /\ c \in sendCalls /\ c.state = "sent"
  /\ \A d \in sendCalls' : d.tempId # c.tempId

\* the entries a sequence holds for one tempId
WithTempId(s, tempId) == {m \in Range(s) : m.tempId = tempId}

\* C15: when the send call of tempId t fails, the entry of t becomes ERROR
\* and is in the outbox and the reconciled list; an ERROR entry stays in the
\* outbox and the reconciled list; a PENDING entry moves to SUCCESS or ERROR
\* only, a SUCCESS or ERROR entry never changes its status; and no send call
\* is issued for the tempId of an entry that is in the outbox.
C15_FailedSendStays ==
  [][ /\ \A c \in sendCalls :
           SendFails(c) =>
             /\ WithTempId(pendingMessages', c.tempId) # {}
             /\ \A e \in WithTempId(pendingMessages', c.tempId) :
                  e.status = "ERROR" /\ e \in Range(allMessages')
      /\ \A p \in Range(pendingMessages) :
           /\ p.status = "PENDING" =>
                \A e \in WithTempId(pendingMessages', p.tempId) :
                  e.status \in {"PENDING", "SUCCESS", "ERROR"}
           /\ p.status \in {"SUCCESS", "ERROR"} =>
                \A e \in WithTempId(pendingMessages', p.tempId) :
                  e.status = p.status
           /\ p.status = "ERROR" =>
                /\ p \in Range(pendingMessages')
                /\ p \in Range(allMessages')
      /\ \A c \in NewSendCalls : c.tempId \notin TempIds(pendingMessages) ]_vars

\* a failed submission and a later successful one, every call answered
C15_Witness ==
  /\ Len(pendingMessages) = 2
  /\ pendingMessages[1].status = "ERROR"
  /\ pendingMessages[2].status = "SUCCESS"
  /\ pendingMessages[1] \in Range(allMessages)
  /\ pendingMessages[2].id \in Ids(wsMessages)
  /\ sendCalls = {}

\* the edit calls a step issues
NewEditCalls == {c \in editCalls' : c.state = "sent" /\ c \notin editCalls}

\* the step in which the answer of a successful edit call is handled
EditSucceeds(c) == c \in editCalls /\ c.state = "ok" /\ c \notin editCalls'

\* the step in which an edit call fails: the call ends unanswered
EditFails(c) ==
  /\ c \in editCalls /\ c.state = "sent"
  /\ \A d \in editCalls' : d.id # c.id

\* the history window with the content of the entry id replaced
WithContent(s, id, content) ==
  [i \in 1..Len(s) |->
     IF s[i].id = id THEN [s[i] EXCEPT !.content = content] ELSE s[i]]

\* C16: the step that issues the edit call has put the new content on the
\* history window entry and marked the id as updating; when the call has
\* succeeded the entry is patched with the response (the content the server
\* answered with), when it fails the history window is left as it is, optimistic
\* content included; either way the in-progress marker of the id is cleared.
C16_EditNoRollback ==
  [][ /\ \A c \in NewEditCalls :
           /\ loadedMessages' = WithContent(loadedMessages, c.id, c.content)
           /\ c.content # <<>> /\ Trim(c.content) = c.content
           /\ updatingMessages' = updatingMessages \cup {c.id}
      /\ \A c \in editCalls :
           /\ EditSucceeds(c) =>
                /\ Without(loadedMessages', c.id) = Without(loadedMessages, c.id)
                /\ Ids(loadedMessages') = Ids(loadedMessages)
                /\ \A m \in Range(loadedMessages') :
                     m.id = c.id => m.content = EditResult(c).content
                /\ updatingMessages' = updatingMessages \ {c.id}
           /\ EditFails(c) =>
                /\ loadedMessages' = loadedMessages
                /\ updatingMessages' = updatingMessages \ {c.id}
                /\ serverMessages' = serverMessages ]_vars

\* a failed edit: the history window shows "b", the server still holds "a"
C16_Witness ==
  /\ edits = 1
  /\ editCalls = {}
  /\ updatingMessages = {}
  /\ \E m \in Range(loadedMessages) :
       /\ m.content = <<"b">>
       /\ m \in Range(allMessages)
       /\ \E sm \in Range(serverMessages) : sm.id = m.id /\ sm.content = <<"a">>

\* the entries of the reconciled list with one id
ShownWithId(id) == {m \in Range(allMessages) : m.id = id}

\* the current user's message, neither PENDING nor ERROR
OwnAndResolved(m) ==
  m.senderId = Me /\ m.status # "PENDING" /\ m.status # "ERROR"

TimerConnects ==
  timers' < timers /\ client' = "connecting" /\ startedBy' = "timer"

\* the session has given up: maxReconnectAttempts reconnects in a row failed
GaveUp == failedReconnects >= maxReconnectAttempts

\* C18: once maxReconnectAttempts reconnects in a row have failed, no
\* reconnect timer starts a connect attempt any more, and the session tells
\* its owner that it is disconnected for good: it reports the connection
\* state DISCONNECTED.
C18_ReconnectBound ==
  [][ /\ GaveUp => ~TimerConnects
      /\ GaveUp' => getConnectionState' = "DISCONNECTED" ]_vars

\* C19: the attempt counter lies in 0..maxReconnectAttempts; it is zero
\* after every successful connect and while the connection stands; and it
\* goes down in no step but a successful connect and the completion of an
\* explicit teardown.
C19_AttemptCounter ==
  [][ /\ reconnectAttempts' \in 0..maxReconnectAttempts
      /\ (client # "connected" /\ client' = "connected") => reconnectAttempts' = 0
      /\ client' = "connected" => reconnectAttempts' = 0
      /\ reconnectAttempts' < reconnectAttempts =>
           \/ client = "connecting" /\ client' = "connected"
           \/ client = "deactivating" /\ client' = "null" ]_vars

\* a reconnect succeeded on the last attempt of the budget, or after it:
\* the connection stands and the counter is back at zero
C19_Witness ==
  /\ client = "connected"
  /\ startedBy = "timer"
  /\ reconnectAttempts = 0
  /\ isConnected
  /\ connects = 1
  /\ timers = 0

\* C20: no connect attempt is started by a reconnect timer that was already
\* scheduled when disconnect() was called.
C20_NoStaleReconnect ==
  [][ ~(staleTimers' < staleTimers /\ client' = "connecting") ]_vars

\* a disconnect() call that resolves its promise in the step of the call
ResolvedAtOnce ==
  /\ disconnects' > disconnects
  /\ teardownPromise' = teardownPromise
  /\ orphanPromises' = orphanPromises

\* the installed teardown handler resolves the promise it holds
ResolvedByTeardown == teardownPromise = "pending" /\ teardownPromise' = "none"

\* C21: the promise of every disconnect() call resolves: no unresolved
\* promise is ever left without the handler that resolves it, also when
\* disconnect() is called while not connected or while a teardown is in
\* progress; and when a promise resolves, the session is not connected and
\* holds no subscription.
C21_DisconnectCompletes ==
  [][ /\ orphanPromises' = 0
      /\ (ResolvedAtOnce \/ ResolvedByTeardown) =>
           ~isConnected' /\ subscription'.topic = "none" ]_vars

\* C21, first half alone: no disconnect() promise loses its resolver
NoOrphanPromise == orphanPromises = 0

\* the promise of a connect() call resolves: that of the last call, or that
\* of a call whose client was replaced since
ConnectResolves ==
  \/ connectPromise = "pending" /\ connectPromise' = "resolved"
  \/ strayConnecting'["pending"] < strayConnecting["pending"]

\* C22: connect() reports success only once the subscription to the topic
\* of the conversation is made: when its promise resolves the session holds
\* a subscription to that topic which the broker serves, and no
\* subscribeToMessages call of it is still waiting or has given up.
C22_SuccessMeansSubscribed ==
  [][ ConnectResolves =>
        /\ subscription'.live
        /\ subscription'.topic = topic'
        /\ waiters' = waiters ]_vars

\* the subscriptions on topic c that the broker serves after the step
LiveOnNext(c) ==
  orphans'[c] + (IF subscription'.live /\ subscription'.topic = c THEN 1 ELSE 0)

\* C23: subscribeToCourse(c) on a connected session leaves the client, the
\* connected flag and the attempt counter as they are and ends with exactly
\* one served subscription, on the topic of c; and every connect that
\* succeeds later subscribes to the topic last chosen.
C23_SwitchTopic ==
  [][ /\ (subscribes' > subscribes /\ isWebSocketConnected) =>
           /\ UNCHANGED <<client, isConnected, reconnectAttempts>>
           /\ LiveOnNext(topic') = 1
           /\ \A d \in Courses \ {topic'} : LiveOnNext(d) = 0
      /\ (client = "connecting" /\ client' = "connected") =>
           subscription' = [topic |-> topic, live |-> TRUE] ]_vars

\* the body is the text that does not end
Malformed(body) == body = <<"{", "c">>

RECURSIVE WellFormedOf(_)
\* the well-formed frames among s, in order, as messages
WellFormedOf(s) ==
  IF s = <<>> THEN <<>>
  ELSE (IF Malformed(Head(s).body) THEN <<>>
        ELSE <<[n |-> Head(s).n,
                content |-> IF Len(Head(s).body) = 3 THEN "c" ELSE ""]>>)
       \o WellFormedOf(Tail(s))

\* C24: a frame whose body cannot be parsed is dropped: the messages handed
\* to the handler are the well-formed frames the callbacks received, each
\* once and in the order of receipt, and receiving a frame, well-formed or
\* not, changes neither the subscriptions nor the state of the connection.
C24_ParseErrorDropped ==
  [][ /\ handled' = WellFormedOf(received')
      /\ received' # received =>
           UNCHANGED <<subscription, orphans, waiters, client, isConnected,
                       reconnectAttempts, config, topic>> ]_vars

\* a malformed frame was received between two well-formed ones
C24_Witness ==
  /\ Len(received) = 3
  /\ ~Malformed(received[1].body)
  /\ Malformed(received[2].body)
  /\ ~Malformed(received[3].body)
  /\ received[1].n < received[2].n /\ received[2].n < received[3].n
  /\ Len(handled) = 2

\* the broker refused the connect attempt of the held client: connect()
\* was rejected
Refused == client = "closed" /\ connectPromise = "rejected"

\* C25: a connect attempt that the broker refuses is fatal: connect() is
\* rejected in the step of the refusal, no reconnect timer is scheduled for
\* it, and the refused client does not start to connect again by itself.
C25_RefusedIsFatal ==
  [][ /\ (client = "connecting" /\ connectPromise = "pending" /\ client' = "closed"
          /\ timers' = timers /\ reconnectAttempts' = reconnectAttempts)
           => connectPromise' = "rejected"
      /\ (~Refused /\ Refused') => timers' = timers
      /\ Refused => ~(client' = "connecting" /\ stompReconnects' > stompReconnects)
    ]_vars

\* no two entries of s have the same id
NoTwoWithSameId(s) ==
  \A i, j \in 1..Len(s) : i < j => s[i].id # s[j].id

\* the entries of s with the given id
CountOf(s, id) == Cardinality({i \in 1..Len(s) : s[i].id = id})

\* the step in which a live message arrives whose id the history window holds
KnownIdArrives ==
  /\ Len(wsMessages') = Len(wsMessages) + 1
  /\ wsMessages'[Len(wsMessages')].id \in Ids(loadedMessages)

\* C26: after any page loads and live inserts no two entries of the history
\* window have the same id; a live message whose id the window holds leaves
\* the window as it is; and a message that is in the window and in the live
\* buffer, and not deleted, is in the reconciled list once.
C26_WindowWithoutDuplicates ==
  [][ /\ NoTwoWithSameId(loadedMessages')
      /\ KnownIdArrives => loadedMessages' = loadedMessages
      /\ \A id \in (Ids(loadedMessages') \cap Ids(wsMessages')) \ deletedMessages' :
           CountOf(allMessages', id) = 1 ]_vars

\* the same message arrived twice on the live channel and a page was loaded
\* that holds it too
C26_Witness ==
  /\ Len(wsMessages) >= 2
  /\ wsMessages[1].id = wsMessages[2].id
  /\ nextPage > 0
  /\ wsMessages[1].id \in Ids(loadedMessages)
  /\ Len(loadedMessages) >= 2

\* the broker serves at most one subscription of the session
AtMostOneSubscription == LiveSubscriptions <= 1

\* no broadcast frame was handed to the message handler twice
HandedOnce ==
  \A i, j \in 1..Len(handled) : i < j => handled[i].n # handled[j].n

\* C27: at any time at most one STOMP client of the session is active and
\* the broker serves at most one subscription of it, whatever the order of
\* connects, disconnects, reconnect timers and subscribeToCourse calls, so
\* that no broadcast is handed to the message handler twice.
C27_OneClientOneSubscription ==
  /\ ActiveClients <= 1
  /\ AtMostOneSubscription
  /\ HandedOnce

\* the teardown that a reconnect() call awaits is over
ReconnectGoesOn == reconnecting = "awaiting" /\ teardownPromise' = "none"

\* C28: reconnect() on a connected session tears the connection down and
\* then connects again with the configuration the session held: when the
\* teardown it awaits is over, the session holds that configuration and a
\* client that is connecting, and the call has not failed.
C28_ForceReconnect ==
  [][ /\ ReconnectGoesOn =>
           /\ config'
           /\ client' = "connecting"
           /\ topic' = topic
           /\ connectPromise' = "pending"
      /\ reconnecting' # "failed" ]_vars

\* the step in which the chat handles the report of a successful reconnect
ReconnectReported == reconnectNotice /\ ~reconnectNotice'

\* the outbox entries with a status other than SUCCESS, in order
Unsent(prev) ==
  FilterSeq(prev, {p \in Range(prev) : p.status \in {"PENDING", "ERROR"}})

\* C29: when a successful automatic reconnect is reported, the outbox
\* entries with status SUCCESS, and no others, leave the outbox: what stays
\* are the PENDING and ERROR entries, unchanged and in their order; history
\* window, live buffer and tombstones stay as they are.
C29_ReconnectDropsSent ==
  [][ ReconnectReported =>
        /\ pendingMessages' = Unsent(pendingMessages)
        /\ \A p \in Range(pendingMessages') : p.status # "SUCCESS"
        /\ UNCHANGED <<loadedMessages, wsMessages, deletedMessages>> ]_vars

\* a reconnect was reported while the outbox held a sent and a failed
\* entry: the failed one is what is left
C29_Witness ==
  /\ sends = 2
  /\ sendCalls = {}
  /\ ~reconnectNotice
  /\ connectPromise = "resolved" /\ startedBy = "timer"
  /\ Len(pendingMessages) = 1
  /\ pendingMessages[1].status = "ERROR"

\* no message id has a remote edit and a remote delete in flight
NeverBothInFlight == updatingMessages \cap deletingMessages = {}

\* C30: no message id has a remote edit and a remote delete in flight at
\* the same time, and when a call is over, whatever its outcome, its id
\* leaves the set of its kind.
C30_EditXorDelete ==
  [][ /\ updatingMessages' \cap deletingMessages' = {}
      /\ \A c \in editCalls :
           (EditSucceeds(c) \/ EditFails(c)) => c.id \notin updatingMessages'
      /\ \A id \in MessageIds :
           (DeleteSucceeds(id) \/ DeleteFails(id)) => id \notin deletingMessages'
    ]_vars

\* C30, second half alone: the id of a call that is over leaves its set
InFlightSetsAreCleared ==
  [][ /\ \A c \in editCalls :
           (EditSucceeds(c) \/ EditFails(c)) => c.id \notin updatingMessages'
      /\ \A id \in MessageIds :
           (DeleteSucceeds(id) \/ DeleteFails(id)) => id \notin deletingMessages'
    ]_vars

=============================================================================
